---------------------------- MODULE Spec2Model ----------------------------
(***************************************************************************)
(* A model of the FluidSimulation class (Jos Stam "stable fluids" solver)  *)
(* of src/unnamed/part_000: the six grid arrays, reset(), addForce(),      *)
(* update() and the kernels diffuse / project / advect / setBoundary.      *)
(*                                                                         *)
(* Numbers.  The program computes in IEEE floating point.  The model       *)
(* computes in exact rational arithmetic: a number is a pair <<n, d>> in   *)
(* lowest terms with d > 0.  Math.sqrt, the one irrational operation, is   *)
(* truncated to a multiple of 1/SqrtScale.  A value whose numerator or     *)
(* denominator would leave the range of the checker's integers is the      *)
(* marker NaR; an operation is explored only when its result holds no NaR. *)
(***************************************************************************)
EXTENDS Integers, Sequences, FiniteSets, TLC

VARIABLES
    size,          \* this.size
    params,        \* this.params (the numeric entries)
    u, v,          \* velocity fields
    u_prev, v_prev,
    density, density_prev,
    densityObject, \* which Float32Array object this.density refers to
    texture,       \* which Float32Array object this.texture.image.data refers to
    mouseDown,     \* host page: the flag mouseDown
    mouse,         \* host page: the vector mouse
    prevMouse,     \* host page: the vector prevMouse
    lastOp,        \* history: the operation that produced this state
    lastArg,       \* history: its arguments (and, for a kernel, what it read)
    calls,         \* history: what the last operation called and wrote, in order
    nops           \* history: number of operations so far

vars == <<size, params, u, v, u_prev, v_prev, density, density_prev,
          densityObject, texture, mouseDown, mouse, prevMouse,
          lastOp, lastArg, calls, nops>>

----------------------------------------------------------------------------
(* Bounds of the model *)

\* largest grid side explored by the solver specifications
MaxSize == 4
\* calls of reset(), addForce() and update() per run
MaxOps == 3
\* kernel calls per run when the kernels are called one at a time
MaxKernelCalls == 2
\* a grid side with interior cells that touch no border
WideSize == 6
\* the grid side and the addForce() calls per run when addForce is studied alone
ForceSize == 11
MaxForceCalls == 2
\* window.innerWidth and window.innerHeight of the host page, in pixels
innerWidth == 8
innerHeight == 8
\* pointer events per run when the host page's handlers are studied alone
MaxPointerEvents == 3
\* update() calls per run when the two variants of the solver run side by side
MaxTwinUpdates == 2

----------------------------------------------------------------------------
(* Exact rational arithmetic *)

IntCap == 2^30 - 1
SqrtScale == 2^10

Abs(a) == IF a < 0 THEN -a ELSE a

RECURSIVE GCD(_, _)
GCD(a, b) == IF b = 0 THEN a ELSE GCD(b, a % b)

NaR == <<0, 0>>
IsNaR(p) == p[2] = 0

\* a * b stays within the integer range
Fits(a, b) == a = 0 \/ b = 0 \/ Abs(a) <= IntCap \div Abs(b)

\* n / d (d # 0) with the common factor g removed and the sign in the numerator
Reduced(n, d, g) ==
    IF d > 0 THEN <<n \div g, d \div g>> ELSE <<(-n) \div g, (-d) \div g>>

\* the rational n / d (d # 0) in lowest terms
R(n, d) == Reduced(n, d, GCD(Abs(n), Abs(d)))

I(n) == <<n, 1>>
Zero == <<0, 1>>
One == <<1, 1>>
Half == <<1, 2>>

RNeg(p) == IF IsNaR(p) THEN NaR ELSE <<-p[1], p[2]>>

\* p + q over the common denominator p[2] * qd = q[2] * pd
AddOver(p, q, pd, qd) ==
    IF Fits(p[1], qd) /\ Fits(q[1], pd) /\ Fits(p[2], qd)
    THEN R(p[1] * qd + q[1] * pd, p[2] * qd)
    ELSE NaR

\* p + q, g the greatest common divisor of the denominators
AddWith(p, q, g) == AddOver(p, q, p[2] \div g, q[2] \div g)

RAdd(p, q) ==
    IF IsNaR(p) \/ IsNaR(q) THEN NaR
    ELSE IF p[1] = 0 THEN q
    ELSE IF q[1] = 0 THEN p
    ELSE AddWith(p, q, GCD(p[2], q[2]))

RSub(p, q) == RAdd(p, RNeg(q))

\* (a / c) * (b / e) for fractions without a common factor across them
MulOver(a, b, c, e) == IF Fits(a, b) /\ Fits(c, e) THEN <<a * b, c * e>> ELSE NaR

\* p * q, g1 and g2 the common factors across the two fractions
MulWith(p, q, g1, g2) == MulOver(p[1] \div g1, q[1] \div g2, p[2] \div g2, q[2] \div g1)

RMul(p, q) ==
    IF IsNaR(p) \/ IsNaR(q) THEN NaR
    ELSE IF p[1] = 0 \/ q[1] = 0 THEN Zero
    ELSE MulWith(p, q, GCD(Abs(p[1]), q[2]), GCD(Abs(q[1]), p[2]))

\* p / q; division by zero is not representable
RDiv(p, q) ==
    IF IsNaR(p) \/ IsNaR(q) \/ q[1] = 0 THEN NaR
    ELSE RMul(p, IF q[1] > 0 THEN <<q[2], q[1]>> ELSE <<-q[2], -q[1]>>)

\* a/b < c/d for b, d > 0, without forming a product: by continued fractions
RECURSIVE FracLess(_, _, _, _)
FracLess(a, b, c, d) ==
    LET qa == a \div b
        qc == c \div d
        ra == a % b
        rc == c % d
    IN  IF qa # qc THEN qa < qc
        ELSE IF rc = 0 THEN FALSE
        ELSE IF ra = 0 THEN TRUE
        ELSE FracLess(d, rc, b, ra)

\* comparisons; like a NaN, NaR compares false with everything
RLt(p, q) ==
    IF IsNaR(p) \/ IsNaR(q) THEN FALSE
    ELSE IF Fits(p[1], q[2]) /\ Fits(q[1], p[2]) THEN p[1] * q[2] < q[1] * p[2]
    ELSE FracLess(p[1], p[2], q[1], q[2])
RGt(p, q) == RLt(q, p)
RLe(p, q) == ~IsNaR(p) /\ ~IsNaR(q) /\ ~RLt(q, p)
RGe(p, q) == RLe(q, p)

RMin(p, q) == IF RLt(q, p) THEN q ELSE p    \* Math.min
RMax(p, q) == IF RGt(q, p) THEN q ELSE p    \* Math.max
RAbs(p) == IF p[1] < 0 THEN RNeg(p) ELSE p

\* Math.floor
Floor(x) == IF IsNaR(x) THEN 0 ELSE x[1] \div x[2]

\* largest k with k * k <= n, for 0 <= n, found between lo and hi
RECURSIVE ISqrtIn(_, _, _)
ISqrtIn(n, lo, hi) ==
    IF lo >= hi THEN lo
    ELSE LET mid == (lo + hi + 1) \div 2
         IN  IF mid <= n \div mid THEN ISqrtIn(n, mid, hi) ELSE ISqrtIn(n, lo, mid - 1)

\* Math.sqrt of a rational q >= 0, truncated to a multiple of 1 / SqrtScale
SqrtScaled(m) == IF IsNaR(m) THEN NaR ELSE R(ISqrtIn(Floor(m), 0, 2^15), SqrtScale)
Sqrt(q) == IF IsNaR(q) THEN NaR ELSE SqrtScaled(RMul(q, I(SqrtScale * SqrtScale)))

----------------------------------------------------------------------------
(* Typed arrays *)

FieldNames == {"u", "v", "u_prev", "v_prev", "density", "density_prev"}

\* new Float32Array(N * N)
ZeroArray(N) == [k \in 0..(N * N - 1) |-> Zero]

\* reading x[idx]: undefined (a NaN in arithmetic) outside the array
Get(x, idx) == IF idx \in DOMAIN x THEN x[idx] ELSE NaR

\* x[idx] = val: ignored outside the array
Put(x, idx, val) == IF idx \in DOMAIN x THEN [x EXCEPT ![idx] = val] ELSE x

\* IX(x, y)
IX(N, x, y) == Floor(x) + Floor(y) * N

\* IX(i, j) at integer coordinates
Cell(N, i, j) == IX(N, I(i), I(j))

\* every value of the array is 0
AllZero(x) == \A k \in DOMAIN x : x[k] = Zero

\* no value of the array is NaR
Representable(x) == {k \in DOMAIN x : IsNaR(x[k])} = {}


----------------------------------------------------------------------------
(* The solver state handed from kernel to kernel: the six arrays by name,  *)
(* the grid side, the parameters and the log of the kernels run so far.    *)

Sim(N, p, fu, fv, fup, fvp, fd, fdp) ==
    [size |-> N, params |-> p, u |-> fu, v |-> fv, u_prev |-> fup, v_prev |-> fvp,
     density |-> fd, density_prev |-> fdp, calls |-> <<>>]

Logged(s, entry) == [s EXCEPT !.calls = Append(@, entry)]

\* the border assignment without the sign flip of kinds 1 and 2
MirrorUnsigned(x, dst, src, negate) == Put(x, dst, Get(x, src))

\* x[dst] = negate ? -x[src] : x[src]   (one border assignment of setBoundary)
Mirror(x, dst, src, negate) ==
    Put(x, dst, IF negate THEN RNeg(Get(x, src)) ELSE Get(x, src))

\* setBoundary(b, x), lines 392-395: the left and right borders, row by row
RECURSIVE VerticalBorders(_, _, _, _)
VerticalBorders(N, b, x, j) ==
    IF j >= N - 1 THEN x
    ELSE VerticalBorders(N, b,
             Mirror(Mirror(x, Cell(N, 0, j), Cell(N, 1, j), b = 1),
                    Cell(N, N - 1, j), Cell(N, N - 2, j), b = 1),
             j + 1)

\* setBoundary(b, x), lines 398-401: the top and bottom borders, column by column
RECURSIVE HorizontalBorders(_, _, _, _)
HorizontalBorders(N, b, x, i) ==
    IF i >= N - 1 THEN x
    ELSE HorizontalBorders(N, b,
             Mirror(Mirror(x, Cell(N, i, 0), Cell(N, i, 1), b = 2),
                    Cell(N, i, N - 1), Cell(N, i, N - 2), b = 2),
             i + 1)

\* the corner assignment without the factor 0.5
CornerSum(x, dst, a, c) == Put(x, dst, RAdd(Get(x, a), Get(x, c)))

\* x[dst] = 0.5 * (x[a] + x[c])   (one corner assignment of setBoundary)
Corner(x, dst, a, c) == Put(x, dst, RMul(Half, RAdd(Get(x, a), Get(x, c))))

\* setBoundary(b, x), lines 404-407: the four corners, in the code's order
Corners(N, x) ==
    Corner(Corner(Corner(Corner(x,
        Cell(N, 0, 0), Cell(N, 1, 0), Cell(N, 0, 1)),
        Cell(N, 0, N - 1), Cell(N, 1, N - 1), Cell(N, 0, N - 2)),
        Cell(N, N - 1, 0), Cell(N, N - 2, 0), Cell(N, N - 1, 1)),
        Cell(N, N - 1, N - 1), Cell(N, N - 2, N - 1), Cell(N, N - 1, N - 2))

\* setBoundary(b, x) on the array x
SetBoundary(N, b, x) == Corners(N, HorizontalBorders(N, b, VerticalBorders(N, b, x, 1), 1))

\* this.setBoundary(b, x) on the array of s named x
Bounded(s, b, x) == [s EXCEPT ![x] = SetBoundary(s.size, b, @)]

\* the interior cells in the order of the loops "for j ... for i ..."
InteriorCells(N) ==
    IF N < 3 THEN <<>>
    ELSE [k \in 1..((N - 2) * (N - 2)) |->
             <<1 + ((k - 1) % (N - 2)), 1 + ((k - 1) \div (N - 2))>>]

\* diffuse, lines 304-311: one relaxation sweep, cell after cell, in place
RECURSIVE DiffuseSweep(_, _, _, _, _, _)
DiffuseSweep(s, x, x0, a, cells, k) ==
    IF k > Len(cells) THEN s
    ELSE LET N == s.size
             i == cells[k][1]
             j == cells[k][2]
         IN  DiffuseSweep(
                 [s EXCEPT ![x] = Put(@, Cell(N, i, j),
                     RDiv(RAdd(Get(s[x0], Cell(N, i, j)),
                               RMul(a, RAdd(RAdd(Get(s[x], Cell(N, i + 1, j)),
                                                 Get(s[x], Cell(N, i - 1, j))),
                                            RAdd(Get(s[x], Cell(N, i, j + 1)),
                                                 Get(s[x], Cell(N, i, j - 1)))))),
                          RAdd(One, RMul(I(4), a))))],
                 x, x0, a, cells, k + 1)

\* diffuse, lines 303-313: the sweeps, each followed by setBoundary
RECURSIVE DiffuseIterations(_, _, _, _, _, _)
DiffuseIterations(s, b, x, x0, a, k) ==
    IF k >= s.params.iterations THEN s
    ELSE DiffuseIterations(
             Bounded(DiffuseSweep(s, x, x0, a, InteriorCells(s.size), 1), b, x),
             b, x, x0, a, k + 1)

\* diffuse(b, x, x0, diffusion, dt); x and x0 name arrays of s
Diffuse(s, b, x, x0, diffusion, dt) ==
    Logged(DiffuseIterations(s, b, x, x0,
               RMul(RMul(dt, diffusion), I((s.size - 2) * (s.size - 2))), 0),
           [kernel |-> "diffuse", b |-> b, dst |-> x, src |-> x0])

\* the divergence pass without the store of 0 into p
RECURSIVE DivergenceKeepingP(_, _, _, _, _, _, _)
DivergenceKeepingP(s, velocX, velocY, p, div, cells, k) ==
    IF k > Len(cells) THEN s
    ELSE LET N == s.size
             i == cells[k][1]
             j == cells[k][2]
         IN  DivergenceKeepingP(
                 [s EXCEPT
                    ![div] = Put(@, Cell(N, i, j),
                        RDiv(RMul(R(-1, 2),
                                  RAdd(RSub(Get(s[velocX], Cell(N, i + 1, j)),
                                            Get(s[velocX], Cell(N, i - 1, j))),
                                       RSub(Get(s[velocY], Cell(N, i, j + 1)),
                                            Get(s[velocY], Cell(N, i, j - 1))))),
                             I(N)))],
                 velocX, velocY, p, div, cells, k + 1)

\* project, lines 321-329: divergence into div, zero into p
RECURSIVE Divergence(_, _, _, _, _, _, _)
Divergence(s, velocX, velocY, p, div, cells, k) ==
    IF k > Len(cells) THEN s
    ELSE LET N == s.size
             i == cells[k][1]
             j == cells[k][2]
         IN  Divergence(
                 [s EXCEPT
                    ![div] = Put(@, Cell(N, i, j),
                        RDiv(RMul(R(-1, 2),
                                  RAdd(RSub(Get(s[velocX], Cell(N, i + 1, j)),
                                            Get(s[velocX], Cell(N, i - 1, j))),
                                       RSub(Get(s[velocY], Cell(N, i, j + 1)),
                                            Get(s[velocY], Cell(N, i, j - 1))))),
                             I(N))),
                    ![p] = Put(@, Cell(N, i, j), Zero)],
                 velocX, velocY, p, div, cells, k + 1)

\* project, lines 335-340: one sweep of the pressure solve, in place
RECURSIVE PressureSweep(_, _, _, _, _)
PressureSweep(s, p, div, cells, k) ==
    IF k > Len(cells) THEN s
    ELSE LET N == s.size
             i == cells[k][1]
             j == cells[k][2]
         IN  PressureSweep(
                 [s EXCEPT ![p] = Put(@, Cell(N, i, j),
                     RDiv(RAdd(Get(s[div], Cell(N, i, j)),
                               RAdd(RAdd(Get(s[p], Cell(N, i + 1, j)),
                                         Get(s[p], Cell(N, i - 1, j))),
                                    RAdd(Get(s[p], Cell(N, i, j + 1)),
                                         Get(s[p], Cell(N, i, j - 1))))),
                          I(4)))],
                 p, div, cells, k + 1)

\* project, lines 334-343
RECURSIVE PressureIterations(_, _, _, _)
PressureIterations(s, p, div, k) ==
    IF k >= s.params.iterations THEN s
    ELSE PressureIterations(
             Bounded(PressureSweep(s, p, div, InteriorCells(s.size), 1), 0, p),
             p, div, k + 1)

\* project, lines 348-349: veloc[c] -= 0.5 * (p[hi] - p[lo]) * N
SubtractAt(s, veloc, p, c, hi, lo) ==
    [s EXCEPT ![veloc] =
        Put(@, c, RSub(Get(@, c),
                       RMul(RMul(Half, RSub(Get(s[p], hi), Get(s[p], lo))), I(s.size))))]

\* project, lines 346-351: subtract the pressure gradient
RECURSIVE SubtractGradient(_, _, _, _, _, _)
SubtractGradient(s, velocX, velocY, p, cells, k) ==
    IF k > Len(cells) THEN s
    ELSE LET N == s.size
             i == cells[k][1]
             j == cells[k][2]
         IN  SubtractGradient(
                 SubtractAt(SubtractAt(s, velocX, p, Cell(N, i, j),
                                       Cell(N, i + 1, j), Cell(N, i - 1, j)),
                            velocY, p, Cell(N, i, j),
                            Cell(N, i, j + 1), Cell(N, i, j - 1)),
                 velocX, velocY, p, cells, k + 1)

\* the log entry of a finished project: the fields it leaves in velocX, velocY
ProjectLogged(s, velocX, velocY) ==
    Logged(s, [kernel |-> "project", velocX |-> velocX, velocY |-> velocY,
               outX |-> s[velocX], outY |-> s[velocY]])

\* project(velocX, velocY, p, div); the four arguments name arrays of s
Project(s, velocX, velocY, p, div) ==
    ProjectLogged(
        Bounded(Bounded(
            SubtractGradient(
                PressureIterations(
                    Bounded(Bounded(
                        Divergence(s, velocX, velocY, p, div, InteriorCells(s.size), 1),
                        0, div), 0, p),
                    p, div, 0),
                velocX, velocY, p, InteriorCells(s.size), 1),
            1, velocX), 2, velocY),
        velocX, velocY)

\* advect, lines 367-370: if (x < 0.5) x = 0.5; if (x > N - 1.5) x = N - 1.5
ClampLow(x, lo) == IF RLt(x, lo) THEN lo ELSE x
ClampHigh(x, hi) == IF RGt(x, hi) THEN hi ELSE x
\* the clamp with the upper limit N - 0.5 instead of N - 1.5
ClampWide(N, x) == ClampHigh(ClampLow(x, Half), RSub(I(N), Half))
Clamp(N, x) == ClampHigh(ClampLow(x, Half), RSub(I(N), R(3, 2)))

SampleWeightsUnnormalised(i, j, i0, j0, s1, t1) ==
    [i |-> i, j |-> j, i0 |-> i0, i1 |-> i0 + 1, j0 |-> j0, j1 |-> j0 + 1,
     s0 |-> One, s1 |-> s1, t0 |-> RSub(One, t1), t1 |-> t1]

\* advect, lines 372-378: the sample cells and weights, s1 = x - i0, t1 = y - j0
SampleWeights(i, j, i0, j0, s1, t1) ==
    [i |-> i, j |-> j, i0 |-> i0, i1 |-> i0 + 1, j0 |-> j0, j1 |-> j0 + 1,
     s0 |-> RSub(One, s1), s1 |-> s1, t0 |-> RSub(One, t1), t1 |-> t1]

\* advect, lines 372-376: i0 = floor(x), j0 = floor(y) of the clamped position
SampleCorner(i, j, x, y, i0, j0) == SampleWeights(i, j, i0, j0, RSub(x, I(i0)), RSub(y, I(j0)))
SampleAround(i, j, x, y) == SampleCorner(i, j, x, y, Floor(x), Floor(y))

\* advect, lines 361-378: the backtraced, clamped position of cell (i, j),
\* its four sample cells and their weights
AdvectSample(s, velocX, velocY, dt, i, j) ==
    SampleAround(i, j,
        Clamp(s.size, RSub(I(i), RMul(RMul(dt, I(s.size)),
                                      Get(s[velocX], Cell(s.size, i, j))))),
        Clamp(s.size, RSub(I(j), RMul(RMul(dt, I(s.size)),
                                      Get(s[velocY], Cell(s.size, i, j))))))

\* advect, lines 380-382: the bilinear blend of the four sample cells of d0
Interpolate(N, d0, c) ==
    RAdd(RMul(c.s0, RAdd(RMul(c.t0, Get(d0, Cell(N, c.i0, c.j0))),
                         RMul(c.t1, Get(d0, Cell(N, c.i0, c.j1))))),
         RMul(c.s1, RAdd(RMul(c.t0, Get(d0, Cell(N, c.i1, c.j0))),
                         RMul(c.t1, Get(d0, Cell(N, c.i1, c.j1))))))

\* advect, lines 359-384: every interior cell of d from four cells of d0
RECURSIVE AdvectCells(_, _, _, _, _, _, _, _)
AdvectCells(s, d, d0, velocX, velocY, dt, cells, k) ==
    IF k > Len(cells) THEN s
    ELSE AdvectCells(
             [s EXCEPT ![d] = Put(@, Cell(s.size, cells[k][1], cells[k][2]),
                 Interpolate(s.size, s[d0],
                     AdvectSample(s, velocX, velocY, dt, cells[k][1], cells[k][2])))],
             d, d0, velocX, velocY, dt, cells, k + 1)

\* advect without the closing setBoundary(b, d)
AdvectUnbounded(s, b, d, d0, velocX, velocY, dt) ==
    Logged(AdvectCells(s, d, d0, velocX, velocY, dt, InteriorCells(s.size), 1),
           [kernel |-> "advect", b |-> b, dst |-> d, src |-> d0,
            velX |-> s[velocX], velY |-> s[velocY]])

\* advect(b, d, d0, velocX, velocY, dt); d, d0, velocX, velocY name arrays of s
Advect(s, b, d, d0, velocX, velocY, dt) ==
    Logged(Bounded(AdvectCells(s, d, d0, velocX, velocY, dt, InteriorCells(s.size), 1),
                   b, d),
           [kernel |-> "advect", b |-> b, dst |-> d, src |-> d0,
            velX |-> s[velocX], velY |-> s[velocY]])

\* the dissipation loop dividing by the factor instead of multiplying
ScaledByInverse(x, factor) == [k \in DOMAIN x |-> RDiv(x[k], factor)]

\* every value of the array times the factor (the dissipation loops)
Scaled(x, factor) == [k \in DOMAIN x |-> RMul(x[k], factor)]

\* velocityStep, lines 272-276: the velocity dissipation loop
DissipateVelocity(s) ==
    [s EXCEPT !.u = Scaled(@, s.params.velocityDissipation),
              !.v = Scaled(@, s.params.velocityDissipation)]

VelocityLogged(s) ==
    Logged(s, [kernel |-> "dissipate", dst |-> "velocity", outX |-> s.u, outY |-> s.v])

\* velocityStep() with the advection of v sampling the already advected u
VelocityStepStaleU(s) ==
    VelocityLogged(DissipateVelocity(
        Project(
            Advect(
                Advect(
                    Project(
                        Diffuse(
                            Diffuse(s, 1, "u_prev", "u", s.params.viscosity, s.params.dt),
                            2, "v_prev", "v", s.params.viscosity, s.params.dt),
                        "u_prev", "v_prev", "u", "v"),
                    1, "u", "u_prev", "u_prev", "v_prev", s.params.dt),
                2, "v", "v_prev", "u", "v_prev", s.params.dt),
            "u", "v", "u_prev", "v_prev")))

\* velocityStep()
VelocityStep(s) ==
    VelocityLogged(DissipateVelocity(
        Project(
            Advect(
                Advect(
                    Project(
                        Diffuse(
                            Diffuse(s, 1, "u_prev", "u", s.params.viscosity, s.params.dt),
                            2, "v_prev", "v", s.params.viscosity, s.params.dt),
                        "u_prev", "v_prev", "u", "v"),
                    1, "u", "u_prev", "u_prev", "v_prev", s.params.dt),
                2, "v", "v_prev", "u_prev", "v_prev", s.params.dt),
            "u", "v", "u_prev", "v_prev")))

\* densityStep, lines 291-294: the density dissipation loop
DissipateDensity(s) ==
    Logged([s EXCEPT !.density = Scaled(@, s.params.densityDissipation)],
           [kernel |-> "dissipate", dst |-> "density"])

\* densityStep()
DensityStep(s) ==
    DissipateDensity(
        Advect(
            Diffuse(s, 0, "density_prev", "density", s.params.diffusion, s.params.dt),
            0, "density", "density_prev", "u", "v", s.params.dt))

\* update(), the solver part: velocityStep() then densityStep()
Update(s) == DensityStep(VelocityStep(s))

SplatForceAsDye(s, idx, amountX, amountY, influence) ==
    [s EXCEPT !.u = Put(@, idx, RAdd(Get(@, idx), RMul(amountX, influence))),
              !.v = Put(@, idx, RAdd(Get(@, idx), RMul(amountY, influence))),
              !.density = Put(@, idx, RAdd(Get(@, idx), RMul(amountY, influence)))]

\* addForce, lines 208-210: the three "+=" at the cell idx
Splat(s, idx, amountX, amountY, influence) ==
    [s EXCEPT !.u = Put(@, idx, RAdd(Get(@, idx), RMul(amountX, influence))),
              !.v = Put(@, idx, RAdd(Get(@, idx), RMul(amountY, influence))),
              !.density = Put(@, idx, RAdd(Get(@, idx), RMul(I(100), influence)))]

\* the loop body without the test "if (d > radius) continue"
\* addForce, lines 202-203: px = Math.min(N - 1, Math.max(0, gridX + i)), py alike
PxBelowOnly(N, grid, offset) == RMax(Zero, RAdd(I(grid), offset))
Px(N, grid, offset) == RMin(I(N - 1), RMax(Zero, RAdd(I(grid), offset)))

\* addForce, lines 205-211: the writes at idx, and their record in the history
SplatAt(s, idx, i, j, amountX, amountY, influence) ==
    Logged(Splat(s, idx, amountX, amountY, influence),
           [kernel |-> "write", idx |-> idx, i |-> i, j |-> j])

ForceAtEveryOffset(s, gridX, gridY, amountX, amountY, i, j, sq) ==
    Splat(s,
          IX(s.size,
             RMin(I(s.size - 1), RMax(Zero, RAdd(I(gridX), i))),
             RMin(I(s.size - 1), RMax(Zero, RAdd(I(gridY), j)))),
          amountX, amountY,
          RSub(One, RDiv(Sqrt(sq), s.params.forceRadius)))

\* addForce, lines 197-210: the body of the loops at offset (i, j), sq = i*i + j*j.
\* The test d > radius is decided on the squares: the square root is monotone
\* and radius > 0.
ForceAt(s, gridX, gridY, amountX, amountY, i, j, sq) ==
    IF RGt(sq, RMul(s.params.forceRadius, s.params.forceRadius)) THEN s
    ELSE SplatAt(s, IX(s.size, Px(s.size, gridX, i), Px(s.size, gridY, j)), i, j,
                 amountX, amountY,
                 RSub(One, RDiv(Sqrt(sq), s.params.forceRadius)))

\* addForce, lines 196-212: the inner loop over j for one offset i
RECURSIVE ForceColumn(_, _, _, _, _, _, _)
ForceColumn(s, gridX, gridY, amountX, amountY, i, j) ==
    IF ~RLe(j, s.params.forceRadius) THEN s
    ELSE ForceColumn(ForceAt(s, gridX, gridY, amountX, amountY, i, j,
                             RAdd(RMul(i, i), RMul(j, j))),
                     gridX, gridY, amountX, amountY, i, RAdd(j, One))

\* addForce, line 195: the outer loop over i
RECURSIVE ForceRows(_, _, _, _, _, _)
ForceRows(s, gridX, gridY, amountX, amountY, i) ==
    IF ~RLe(i, s.params.forceRadius) THEN s
    ELSE ForceRows(ForceColumn(s, gridX, gridY, amountX, amountY, i,
                               RNeg(s.params.forceRadius)),
                   gridX, gridY, amountX, amountY, RAdd(i, One))

\* addForce, lines 185-186: window coordinates to the target cell
GridX(N, x) == Floor(RMul(RDiv(RAdd(x, RDiv(I(innerWidth), I(2))), I(innerWidth)), I(N)))
GridY(N, y) == Floor(RMul(RDiv(RAdd(y, RDiv(I(innerHeight), I(2))), I(innerHeight)), I(N)))

\* addForce(x, y, amountX, amountY)
AddForce(s, x, y, amountX, amountY) ==
    ForceRows(Logged(s, [kernel |-> "addForce", x |-> x, y |-> y,
                         amountX |-> amountX, amountY |-> amountY]),
              GridX(s.size, x), GridY(s.size, y),
              RMul(amountX, s.params.forceMultiplier),
              RMul(amountY, s.params.forceMultiplier),
              RNeg(s.params.forceRadius))

\* storing into a Float32Array: the nearest number with a significand of 24 bits,
\* a tie going to the even one.  Scale24 is the power of two that brings x > 0 into
\* 2^23 <= x * scale < 2^24.
RECURSIVE Scale24(_, _)
Scale24(x, scale) ==
    IF RLt(RMul(x, I(scale)), I(2^23)) THEN Scale24(x, 2 * scale)
    ELSE IF RGe(RMul(x, I(scale)), I(2^24)) THEN Scale24(x, scale \div 2)
    ELSE scale

RoundFrom(y, f) ==
    IF RLt(RSub(y, I(f)), Half) THEN f
    ELSE IF RGt(RSub(y, I(f)), Half) THEN f + 1
    ELSE IF f % 2 = 0 THEN f ELSE f + 1

FroundAt(x, scale) == R(RoundFrom(RMul(x, I(scale)), Floor(RMul(x, I(scale)))), scale)

Fround(x) == IF x = Zero THEN Zero ELSE FroundAt(x, Scale24(RAbs(x), 1))

\* reset, line 54: this.density[i] = Math.random() * 50 + 50, for the value r that
\* Math.random() returned
Seed(r) == Fround(RAdd(RMul(r, I(50)), I(50)))

ResetKeepingScratch(s, seeds) ==
    [s EXCEPT !.u = ZeroArray(s.size), !.v = ZeroArray(s.size),
              !.density = [k \in 0..(s.size * s.size - 1) |->
                              IF k \in DOMAIN seeds THEN seeds[k] ELSE Zero]]

\* reset(): six fresh arrays; seeds maps the cells that drew Math.random() < 0.001
\* to the value each of them received
Reset(s, seeds) ==
    [s EXCEPT !.u = ZeroArray(s.size), !.v = ZeroArray(s.size),
              !.u_prev = ZeroArray(s.size), !.v_prev = ZeroArray(s.size),
              !.density = [k \in 0..(s.size * s.size - 1) |->
                              IF k \in DOMAIN seeds THEN seeds[k] ELSE Zero],
              !.density_prev = ZeroArray(s.size)]


----------------------------------------------------------------------------
(* The simulation object: construction, reset(), addForce(), update() and  *)
(* the host retuning this.params between calls.                            *)

Cur == Sim(size, params, u, v, u_prev, v_prev, density, density_prev)

AllRepresentable(s) == {f \in FieldNames : ~Representable(s[f])} = {}

\* createVisualization(), lines 69-76: the density texture is created over the
\* array this.density refers to at that moment
CreateVisualization ==
    /\ densityObject = 1
    /\ texture = densityObject

\* the host page, lines 381-383: mouse, prevMouse and mouseDown as declared
HostInit ==
    /\ mouseDown = FALSE
    /\ mouse = <<Zero, Zero>>
    /\ prevMouse = <<Zero, Zero>>

\* the arrays of s become the next state's arrays
Install(s) ==
    /\ u' = s.u
    /\ v' = s.v
    /\ u_prev' = s.u_prev
    /\ v_prev' = s.v_prev
    /\ density' = s.density
    /\ density_prev' = s.density_prev

\* configurations inside the documented ranges (dt > 0, diffusion >= 0,
\* viscosity >= 0, iterations >= 1, dissipations in (0, 1], force > 0)
Viscous ==
    [dt |-> R(1, 4), diffusion |-> Zero, viscosity |-> One, iterations |-> 1,
     densityDissipation |-> Half, velocityDissipation |-> One,
     forceMultiplier |-> One, forceRadius |-> One]
Diffusive ==
    [dt |-> R(1, 4), diffusion |-> R(1, 4), viscosity |-> Zero, iterations |-> 2,
     densityDissipation |-> One, velocityDissipation |-> Half,
     forceMultiplier |-> I(2), forceRadius |-> R(3, 2)]
ParamChoices == {Viscous, Diffusive}

\* values of Math.random(), which lie in [0, 1): the least, the middle and one
\* within 2^-24 of 1
RandomLow == Zero
RandomMid == Half
RandomHigh == R(2^24 - 1, 2^24)

\* outcomes of the random seeding of reset(): no cell, or one cell, seeded
SeedChoices(N) ==
    {<<>>}
    \cup {(Cell(N, 1, 1) :> Seed(RandomLow))}
    \cup {(Cell(N, 0, 1) :> Seed(RandomMid))}
    \cup {(Cell(N, 1, 0) :> Seed(RandomHigh))}

\* pointer positions (window coordinates) and pointer displacements
PointerXY == {<<I(-2), I(-2)>>, <<Zero, I(1)>>, <<I(4), I(4)>>}
PointerMoves == {<<I(1024), I(-1024)>>, <<I(1), Zero>>}

Sizes == 3..MaxSize

\* new FluidSimulation(size, scene), for a size of the given set: the constructor
\* checks nothing, sets the parameters, calls reset() and createVisualization()
Construct(sizes) ==
    /\ size \in sizes
    /\ params \in ParamChoices
    /\ \E seeds \in SeedChoices(size) :
          \E s \in {Reset(Sim(size, params, <<>>, <<>>, <<>>, <<>>, <<>>, <<>>), seeds)} :
              /\ u = s.u
              /\ v = s.v
              /\ u_prev = s.u_prev
              /\ v_prev = s.v_prev
              /\ density = s.density
              /\ density_prev = s.density_prev
    /\ CreateVisualization
    /\ HostInit
    /\ lastOp = "new"
    /\ lastArg = <<>>
    /\ calls = <<>>
    /\ nops = 0

Init == Construct(Sizes)

\* reset(): this.density becomes a new array object; the texture is not touched
DoReset ==
    /\ nops < MaxOps
    /\ \E seeds \in SeedChoices(size) : \E s \in {Reset(Cur, seeds)} : Install(s)
    /\ densityObject' = densityObject + 1
    /\ lastOp' = "reset"
    /\ lastArg' = [dirty |-> ~AllZero(u) \/ ~AllZero(density_prev)]
    /\ calls' = <<>>
    /\ nops' = nops + 1
    /\ UNCHANGED <<size, params, texture, mouseDown, mouse, prevMouse>>

\* addForce(x, y, fx, fy), the pointer position and displacement drawn from the
\* given sets; the history keeps the target cell and the fields as they were
AddForceFrom(positions, moves, bound) ==
    /\ nops < bound
    /\ \E xy \in positions, f \in moves :
          /\ lastArg' = [gridX |-> GridX(size, xy[1]), gridY |-> GridY(size, xy[2]),
                         amountX |-> f[1], amountY |-> f[2],
                         u |-> u, v |-> v, density |-> density]
          /\ \E s \in {AddForce(Cur, xy[1], xy[2], f[1], f[2])} :
                AllRepresentable(s) /\ Install(s) /\ calls' = s.calls
    /\ lastOp' = "addForce"
    /\ nops' = nops + 1
    /\ UNCHANGED <<size, params, densityObject, texture, mouseDown, mouse, prevMouse>>

DoAddForce == AddForceFrom(PointerXY, PointerMoves, MaxOps)

\* update(); the history keeps the fields as they were
DoUpdate ==
    /\ nops < MaxOps
    /\ lastArg' = [density |-> density, density_prev |-> density_prev,
                   u |-> u, v |-> v, u_prev |-> u_prev, v_prev |-> v_prev]
    /\ \E s \in {Update(Cur)} :
           /\ AllRepresentable(s)
           /\ calls' = s.calls
           /\ Install(s)
    /\ lastOp' = "update"
    /\ nops' = nops + 1
    /\ UNCHANGED <<size, params, densityObject, texture, mouseDown, mouse, prevMouse>>

\* the host (control panel, presets) writes this.params between calls
Retune ==
    /\ lastOp # "retune"
    /\ \E p \in ParamChoices \ {params} : params' = p
    /\ lastOp' = "retune"
    /\ lastArg' = <<>>
    /\ calls' = <<>>
    /\ UNCHANGED <<size, u, v, u_prev, v_prev, density, density_prev, nops,
                   densityObject, texture, mouseDown, mouse, prevMouse>>

Next == DoReset \/ DoAddForce \/ DoUpdate \/ Retune

Spec == Init /\ [][Next]_vars

\* the same object constructed with a size below 3
SmallSizes == 0..2

SmallInit == Construct(SmallSizes)

SmallSpec == SmallInit /\ [][Next]_vars

----------------------------------------------------------------------------
(* The kernels called one at a time.  setBoundary, advect, project and     *)
(* diffuse are methods of the object; each takes the arrays it is handed.  *)

\* fields on an N * N grid: one cell set, all cells different, all cells equal
Spike(N, i, j, val) == [k \in 0..(N * N - 1) |-> IF k = Cell(N, i, j) THEN val ELSE Zero]
Ramp(N) == [k \in 0..(N * N - 1) |-> I(k + 1)]
Uniform(N, val) == [k \in 0..(N * N - 1) |-> val]

\* velocities: at rest, uniform flow, a unit source, and speeds for which
\* dt * N * velocity is far beyond the grid
VelocityChoices(N) ==
    {ZeroArray(N), Uniform(N, One), Spike(N, N \div 2, (N - 1) \div 2, One),
     Spike(N, 1, 1, I(2^20)), Spike(N, N - 2, 1, I(-(2^20)))}

KernelSizes == (3..MaxSize) \cup {WideSize}

KernelInit ==
    /\ size \in KernelSizes
    /\ params \in ParamChoices
    /\ u \in VelocityChoices(size)
    /\ v \in {ZeroArray(size), Ramp(size)}
    /\ density = Spike(size, 1, 1, I(100))
    /\ \E scratch \in {ZeroArray(size), Ramp(size)} :
          /\ u_prev = scratch
          /\ v_prev = scratch
          /\ density_prev = scratch
    /\ CreateVisualization
    /\ HostInit
    /\ lastOp = "new"
    /\ lastArg = <<>>
    /\ calls = <<>>
    /\ nops = 0

\* what a kernel call leaves in the history besides its arguments
KernelDone(op) ==
    /\ lastOp' = op
    /\ calls' = <<>>
    /\ nops' = nops + 1
    /\ UNCHANGED <<size, params, densityObject, texture, mouseDown, mouse, prevMouse>>

\* this.setBoundary(b, x)
CallSetBoundary ==
    /\ nops < MaxKernelCalls
    /\ \E b \in 0..2, x \in {"u", "density_prev"} :
          /\ lastArg' = [b |-> b, field |-> x, before |-> Cur[x]]
          /\ \E s \in {Bounded(Cur, b, x)} : AllRepresentable(s) /\ Install(s)
    /\ KernelDone("setBoundary")

\* the samples advect takes, one for every interior cell
Samples(s, velocX, velocY, dt) ==
    {AdvectSample(s, velocX, velocY, dt, InteriorCells(s.size)[k][1],
                  InteriorCells(s.size)[k][2]) : k \in DOMAIN InteriorCells(s.size)}

\* this.advect(b, d, d0, velocX, velocY, dt): as densityStep calls it, and with
\* the source being the sampled velocity, as velocityStep calls it
CallAdvect ==
    /\ nops < MaxKernelCalls
    /\ \E dt \in {R(1, 4), I(1024)},
          a \in {[b |-> 0, d |-> "density", d0 |-> "density_prev", velocX |-> "u"],
                 [b |-> 1, d |-> "u_prev", d0 |-> "u", velocX |-> "u"]} :
          /\ lastArg' = [dt |-> dt, dst |-> a.d, src |-> Cur[a.d0],
                         samples |-> Samples(Cur, a.velocX, "v", dt)]
          /\ \E s \in {Advect(Cur, a.b, a.d, a.d0, a.velocX, "v", dt)} :
                AllRepresentable(s) /\ Install(s)
    /\ KernelDone("advect")

\* this.project(this.u, this.v, this.u_prev, this.v_prev)
CallProject ==
    /\ nops < MaxKernelCalls
    /\ lastArg' = [u |-> u, v |-> v, p |-> u_prev, div |-> v_prev]
    /\ \E s \in {Project(Cur, "u", "v", "u_prev", "v_prev")} :
          AllRepresentable(s) /\ Install(s)
    /\ KernelDone("project")

\* this.diffuse(0, this.density_prev, this.density, diffusion, dt)
CallDiffuse ==
    /\ nops < MaxKernelCalls
    /\ lastArg' = [before |-> density_prev, src |-> density]
    /\ \E s \in {Diffuse(Cur, 0, "density_prev", "density", params.diffusion, params.dt)} :
          AllRepresentable(s) /\ Install(s)
    /\ KernelDone("diffuse")

KernelNext == CallSetBoundary \/ CallAdvect \/ CallProject \/ CallDiffuse

KernelSpec == KernelInit /\ [][KernelNext]_vars

----------------------------------------------------------------------------
(* addForce() on a grid wide enough to hold the disc of radius 5 around    *)
(* its centre, for integer and non-integer radii.                          *)

\* params.forceRadius as the constructor sets it: size / 20
DefaultRadius(N) == R(N, 20)

ForceRadii(N) == {DefaultRadius(N), Half, One, R(3, 2), I(2), R(5, 2), I(5), I(N + 1)}

\* pointer positions: the centre of the window, its left edge, beyond its
\* top left corner, and its bottom right corner
ForcePointerXY ==
    {<<Zero, Zero>>, <<R(-innerWidth, 2), Zero>>,
     <<I(-innerWidth), I(-innerHeight)>>, <<R(innerWidth, 2), R(innerHeight, 2)>>}
ForceMoves == {<<I(10), Zero>>, <<I(-3), I(7)>>}

ForceInit ==
    /\ size = ForceSize
    /\ \E r \in ForceRadii(size), m \in {One, I(2)} :
          params = [Viscous EXCEPT !.forceRadius = r, !.forceMultiplier = m]
    /\ u = ZeroArray(size)
    /\ v = ZeroArray(size)
    /\ u_prev = ZeroArray(size)
    /\ v_prev = ZeroArray(size)
    /\ density = ZeroArray(size)
    /\ density_prev = ZeroArray(size)
    /\ CreateVisualization
    /\ HostInit
    /\ lastOp = "new"
    /\ lastArg = <<>>
    /\ calls = <<>>
    /\ nops = 0

ForceAdd == AddForceFrom(ForcePointerXY, ForceMoves, MaxForceCalls)

ForceNext == ForceAdd

ForceSpec == ForceInit /\ [][ForceNext]_vars

----------------------------------------------------------------------------
(* The variant of src/js/fluidSimulation.js, whose kernels are those of the  *)
(* tunable class, next to the tunable class: both start from the same fields *)
(* and the same dt, diffusion, viscosity and iterations, and update() runs   *)
(* on both.  The fields of the variant's object are kept in lastArg.twin.    *)

\* src/js/fluidSimulation.js, velocityStep(), lines 147-165
FixedVelocityStep(s) ==
    Project(
        Advect(
            Advect(
                Project(
                    Diffuse(
                        Diffuse(s, 1, "u_prev", "u", s.params.viscosity, s.params.dt),
                        2, "v_prev", "v", s.params.viscosity, s.params.dt),
                    "u_prev", "v_prev", "u", "v"),
                1, "u", "u_prev", "u_prev", "v_prev", s.params.dt),
            2, "v", "v_prev", "u_prev", "v_prev", s.params.dt),
        "u", "v", "u_prev", "v_prev")

FixedDensityStepUndamped(s) ==
    Advect(
        Diffuse(s, 0, "density_prev", "density", s.params.diffusion, s.params.dt),
        0, "density", "density_prev", "u", "v", s.params.dt)

\* src/js/fluidSimulation.js, densityStep(), lines 167-182
FixedDensityStep(s) ==
    [Advect(
        Diffuse(s, 0, "density_prev", "density", s.params.diffusion, s.params.dt),
        0, "density", "density_prev", "u", "v", s.params.dt)
     EXCEPT !.density = Scaled(@, R(99, 100))]

\* src/js/fluidSimulation.js, update(), lines 139-145
FixedUpdate(s) == FixedDensityStep(FixedVelocityStep(s))

\* the tunable class set to the variant's constants, with the given velocity
\* dissipation
TwinParams(velocityDissipation) ==
    [Diffusive EXCEPT !.densityDissipation = R(99, 100),
                      !.velocityDissipation = velocityDissipation]

TwinInit ==
    /\ size \in Sizes
    /\ params \in {TwinParams(R(99, 100)), TwinParams(One)}
    /\ u \in VelocityChoices(size)
    /\ v \in {ZeroArray(size), Ramp(size)}
    /\ density = Spike(size, 1, 1, I(100))
    /\ \E scratch \in {ZeroArray(size), Ramp(size)} :
          /\ u_prev = scratch
          /\ v_prev = scratch
          /\ density_prev = scratch
    /\ CreateVisualization
    /\ HostInit
    /\ lastOp = "new"
    /\ lastArg = [twin |-> Cur]
    /\ calls = <<>>
    /\ nops = 0

\* update() on both objects
TwinUpdate ==
    /\ nops < MaxTwinUpdates
    /\ \E s \in {Update(Cur)} :
           /\ AllRepresentable(s)
           /\ calls' = s.calls
           /\ Install(s)
    /\ \E twin \in {FixedUpdate(lastArg.twin)} :
           /\ AllRepresentable(twin)
           /\ lastArg' = [twin |-> twin]
    /\ lastOp' = "update"
    /\ nops' = nops + 1
    /\ UNCHANGED <<size, params, densityObject, texture, mouseDown, mouse, prevMouse>>

TwinNext == TwinUpdate

TwinSpec == TwinInit /\ [][TwinNext]_vars

----------------------------------------------------------------------------
(* The pointer handlers of the host page (README.md, lines 380-443) on an    *)
(* instance whose fields start at zero.                                      *)

\* event.clientX, event.clientY of the pointer events: a window corner, the
\* window centre and one more point
ClientXY == {<<0, 0>>, <<innerWidth \div 2, innerHeight \div 2>>, <<innerWidth - 2, 2>>}

\* event.touches: one touch, or two of which the handlers read the first
TouchLists == {<<c>> : c \in ClientXY} \cup {<<<<innerWidth - 2, 2>>, <<0, 0>>>>}

\* updateMousePosition / updateTouchPosition, lines 433-443: the vector mouse
MousePosition(c) ==
    <<RSub(I(c[1]), RDiv(I(innerWidth), I(2))),
      RNeg(RSub(I(c[2]), RDiv(I(innerHeight), I(2))))>>

\* history of the pointer events: whether a press happened with no release after
\* it, and where the latest press or move was, in the coordinates of mouse
Pointer(event, pressed, at) == [event |-> event, pressed |-> pressed, pointer |-> at]

PageInit ==
    /\ size = MaxSize
    /\ params \in ParamChoices
    /\ u = ZeroArray(size)
    /\ v = ZeroArray(size)
    /\ u_prev = ZeroArray(size)
    /\ v_prev = ZeroArray(size)
    /\ density = ZeroArray(size)
    /\ density_prev = ZeroArray(size)
    /\ CreateVisualization
    /\ HostInit
    /\ lastOp = "new"
    /\ lastArg = Pointer("none", FALSE, <<Zero, Zero>>)
    /\ calls = <<>>
    /\ nops = 0

\* what every pointer handler leaves alone, and the history it writes
Handled(event, pressed, at) ==
    /\ nops < MaxPointerEvents
    /\ lastOp' = event
    /\ lastArg' = Pointer(event, pressed, at)
    /\ nops' = nops + 1
    /\ UNCHANGED <<size, params, densityObject, texture>>

FieldsUnchanged ==
    /\ UNCHANGED <<u, v, u_prev, v_prev, density, density_prev>>
    /\ calls' = <<>>

\* mousedown and touchstart, lines 385-389 and 408-413
OnPressStale(event, c) ==
    /\ mouseDown' = TRUE
    /\ mouse' = MousePosition(c)
    /\ prevMouse' = prevMouse
    /\ FieldsUnchanged
    /\ Handled(event, TRUE, MousePosition(c))

OnPress(event, c) ==
    /\ mouseDown' = TRUE
    /\ mouse' = MousePosition(c)
    /\ prevMouse' = MousePosition(c)
    /\ FieldsUnchanged
    /\ Handled(event, TRUE, MousePosition(c))

\* mouseup and touchend, lines 391-393 and 415-418
OnRelease(event) ==
    /\ mouseDown' = FALSE
    /\ UNCHANGED <<mouse, prevMouse>>
    /\ FieldsUnchanged
    /\ Handled(event, FALSE, lastArg.pointer)

\* mousemove and touchmove, lines 395-405 and 420-431
OnMove(event, c) ==
    /\ mouse' = MousePosition(c)
    /\ IF mouseDown
       THEN \E s \in {AddForce(Cur, MousePosition(c)[1], MousePosition(c)[2],
                               RSub(MousePosition(c)[1], prevMouse[1]),
                               RSub(MousePosition(c)[2], prevMouse[2]))} :
                AllRepresentable(s) /\ Install(s) /\ calls' = s.calls
       ELSE FieldsUnchanged
    /\ prevMouse' = MousePosition(c)
    /\ UNCHANGED mouseDown
    /\ Handled(event, lastArg.pressed, MousePosition(c))

MouseDown == \E c \in ClientXY : OnPress("mousedown", c)
MouseUp == OnRelease("mouseup")
MouseMove == \E c \in ClientXY : OnMove("mousemove", c)
TouchStart == \E touches \in TouchLists : OnPress("touchstart", touches[1])
TouchEnd == OnRelease("touchend")
TouchMove == \E touches \in TouchLists : OnMove("touchmove", touches[1])

PageNext == MouseDown \/ MouseUp \/ MouseMove \/ TouchStart \/ TouchEnd \/ TouchMove

PageSpec == PageInit /\ [][PageNext]_vars

----------------------------------------------------------------------------
(* Measures of a field *)

\* x[0] + ... + x[k]
RECURSIVE SumUpTo(_, _)
SumUpTo(x, k) == IF k < 0 THEN Zero ELSE RAdd(SumUpTo(x, k - 1), x[k])

\* the sum of the field over all cells, border cells included
Total(x) == SumUpTo(x, size * size - 1)

\* the largest |x[0]|, ..., |x[k]|
RECURSIVE MaxAbsUpTo(_, _)
MaxAbsUpTo(x, k) == IF k < 0 THEN Zero ELSE RMax(MaxAbsUpTo(x, k - 1), RAbs(x[k]))

\* the largest magnitude of the field
MaxAbs(x) == MaxAbsUpTo(x, size * size - 1)

----------------------------------------------------------------------------
(* C1, C8, C10: update() *)

\* C1 (as stated): an update() leaves the total density, summed over all cells,
\* no larger than before, and strictly smaller unless density was zero everywhere.
C1_TotalDensityNeverGrows ==
    [][lastOp' = "update" =>
          /\ RLe(Total(density'), Total(density))
          /\ (~AllZero(density) => RLt(Total(density'), Total(density)))]_vars

\* C1 (amended): an update() bounds the largest magnitude of density: afterwards
\* max |density| is at most densityDissipation times the larger of max |density|
\* and max |density_prev| as they were before the update.
C1_PeakDensityDecays ==
    [][lastOp' = "update" =>
          RLe(MaxAbs(density'),
              RMul(params.densityDissipation,
                   RMax(MaxAbs(density), MaxAbs(density_prev))))]_vars

\* an update() ran on a density that was not zero, with densityDissipation below 1,
\* and left a density that is not zero
C1_StepOnDensity ==
    /\ lastOp = "update"
    /\ RLt(params.densityDissipation, One)
    /\ ~AllZero(lastArg.density)
    /\ ~AllZero(density)

\* C8: from a state whose density is zero in every cell, an update() that does
\* not directly follow an addForce leaves density zero in every cell.
C8_ZeroDensityStaysZero ==
    [][(lastOp' = "update" /\ lastOp # "addForce" /\ AllZero(density))
          => AllZero(density')]_vars

\* the kernels of one update(), in order: which kernel, on which field
KernelOrder ==
    <<[kernel |-> "diffuse", dst |-> "u_prev", src |-> "u"],
      [kernel |-> "diffuse", dst |-> "v_prev", src |-> "v"],
      [kernel |-> "project", velocX |-> "u_prev", velocY |-> "v_prev"],
      [kernel |-> "advect", dst |-> "u", src |-> "u_prev"],
      [kernel |-> "advect", dst |-> "v", src |-> "v_prev"],
      [kernel |-> "project", velocX |-> "u", velocY |-> "v"],
      [kernel |-> "dissipate", dst |-> "velocity"],
      [kernel |-> "diffuse", dst |-> "density_prev", src |-> "density"],
      [kernel |-> "advect", dst |-> "density", src |-> "density_prev"],
      [kernel |-> "dissipate", dst |-> "density"]>>

\* the log entry agrees with the expected one on every field the latter has
Agrees(entry, expected) ==
    /\ DOMAIN expected \subseteq DOMAIN entry
    /\ \A f \in DOMAIN expected : entry[f] = expected[f]

\* C10: every update() runs diffuse(u), diffuse(v), project, advect(u),
\* advect(v), project, the velocity dissipation, diffuse(density),
\* advect(density), the density dissipation, in this order and nothing else;
\* both velocity advections sample the velocity left by the first project, and
\* the density advection samples the velocity left by the velocity dissipation.
C10_KernelOrder ==
    lastOp = "update" =>
        /\ Len(calls) = Len(KernelOrder)
        /\ \A k \in 1..Len(KernelOrder) : Agrees(calls[k], KernelOrder[k])
        /\ calls[4].velX = calls[3].outX /\ calls[4].velY = calls[3].outY
        /\ calls[5].velX = calls[3].outX /\ calls[5].velY = calls[3].outY
        /\ calls[9].velX = calls[7].outX /\ calls[9].velY = calls[7].outY
        /\ calls[7].outX = u /\ calls[7].outY = v

\* an update() ran in which the advection of u changed u, so that sampling the
\* advected u would differ, and the velocity dissipation changed the velocity
C10_StepWithFlow ==
    /\ lastOp = "update"
    /\ Len(calls) = Len(KernelOrder)
    /\ ~AllZero(calls[3].outX)
    /\ calls[6].outX # calls[3].outX
    /\ calls[7].outX # calls[6].outX

----------------------------------------------------------------------------
(* C4 - C7: the kernels *)

\* the array of the current state with the given name
Field(name) ==
    CASE name = "u" -> u
      [] name = "v" -> v
      [] name = "u_prev" -> u_prev
      [] name = "v_prev" -> v_prev
      [] name = "density" -> density
      [] name = "density_prev" -> density_prev

\* x[IX(i, j)] on the current grid
At(x, i, j) == Get(x, Cell(size, i, j))

\* C4: every cell advect writes and every one of the four cells it samples has
\* coordinates inside the grid: 0 <= i0 < i1 <= N-1 and 0 <= j0 < j1 <= N-1,
\* whatever dt and the velocities are.
C4_AdvectInsideGrid ==
    lastOp = "advect" =>
        \A c \in lastArg.samples :
            /\ 1 <= c.i /\ c.i <= size - 2 /\ 1 <= c.j /\ c.j <= size - 2
            /\ 0 <= c.i0 /\ c.i0 < c.i1 /\ c.i1 <= size - 1
            /\ 0 <= c.j0 /\ c.j0 < c.j1 /\ c.j1 <= size - 1

\* an advect ran with dt * N * velocity beyond the grid in both directions: one
\* sample was clamped to the first column and one to the last
C4_ClampedBothWays ==
    /\ lastOp = "advect"
    /\ lastArg.dt = I(1024)
    /\ \E c \in lastArg.samples : c.i0 = 0 /\ c.s1 = Half
    /\ \E c \in lastArg.samples : c.i1 = size - 1 /\ c.s1 = Half

\* sum over the interior cells k, k+1, ... of |div|, the discrete divergence
\* -0.5 * (x[i+1,j] - x[i-1,j] + y[i,j+1] - y[i,j-1]) / N of the field (x, y)
RECURSIVE SumAbsDivergenceFrom(_, _, _, _)
SumAbsDivergenceFrom(x, y, cells, k) ==
    IF k > Len(cells) THEN Zero
    ELSE RAdd(RAbs(RDiv(RMul(R(-1, 2),
                             RAdd(RSub(At(x, cells[k][1] + 1, cells[k][2]),
                                       At(x, cells[k][1] - 1, cells[k][2])),
                                  RSub(At(y, cells[k][1], cells[k][2] + 1),
                                       At(y, cells[k][1], cells[k][2] - 1)))),
                        I(size))),
              SumAbsDivergenceFrom(x, y, cells, k + 1))

SumAbsDivergence(x, y) == SumAbsDivergenceFrom(x, y, InteriorCells(size), 1)

\* C5: for a velocity field that is not zero everywhere, project leaves a field
\* whose divergence, summed in absolute value over the interior cells, is
\* strictly smaller than that of the field it was given.
C5_DivergenceShrinks ==
    (lastOp = "project" /\ ~(AllZero(lastArg.u) /\ AllZero(lastArg.v))) =>
        RLt(SumAbsDivergence(u, v), SumAbsDivergence(lastArg.u, lastArg.v))

\* C6: after setBoundary(b, x) the left and right border cells of every row
\* 1..N-2 are the adjacent interior cells, negated when b = 1; the top and
\* bottom border cells of every column 1..N-2 are the adjacent interior cells,
\* negated when b = 2; and no interior cell has changed.
C6_BoundaryEdges ==
    lastOp = "setBoundary" =>
        /\ \A j \in 1..(size - 2) :
              /\ At(Field(lastArg.field), 0, j) =
                     (IF lastArg.b = 1 THEN RNeg(At(Field(lastArg.field), 1, j))
                                       ELSE At(Field(lastArg.field), 1, j))
              /\ At(Field(lastArg.field), size - 1, j) =
                     (IF lastArg.b = 1 THEN RNeg(At(Field(lastArg.field), size - 2, j))
                                       ELSE At(Field(lastArg.field), size - 2, j))
        /\ \A i \in 1..(size - 2) :
              /\ At(Field(lastArg.field), i, 0) =
                     (IF lastArg.b = 2 THEN RNeg(At(Field(lastArg.field), i, 1))
                                       ELSE At(Field(lastArg.field), i, 1))
              /\ At(Field(lastArg.field), i, size - 1) =
                     (IF lastArg.b = 2 THEN RNeg(At(Field(lastArg.field), i, size - 2))
                                       ELSE At(Field(lastArg.field), i, size - 2))
        /\ \A i, j \in 1..(size - 2) :
              At(Field(lastArg.field), i, j) = At(lastArg.before, i, j)

\* a setBoundary of kind 1 and one of kind 2 each flipped the sign of a border
\* cell next to a non-zero interior cell, changing the field
C6_FlippedBorder ==
    /\ lastOp = "setBoundary"
    /\ lastArg.b \in {1, 2}
    /\ At(Field(lastArg.field), 1, 1) # Zero
    /\ At(Field(lastArg.field), 0, 1) = RNeg(At(Field(lastArg.field), 1, 1))
         \/ At(Field(lastArg.field), 1, 0) = RNeg(At(Field(lastArg.field), 1, 1))
    /\ Field(lastArg.field) # lastArg.before

\* C7: after setBoundary of any kind each corner cell is the average of the two
\* border cells next to it, as they stand after the call.
C7_CornerAverages ==
    lastOp = "setBoundary" =>
        /\ At(Field(lastArg.field), 0, 0) =
               RMul(Half, RAdd(At(Field(lastArg.field), 1, 0),
                               At(Field(lastArg.field), 0, 1)))
        /\ At(Field(lastArg.field), 0, size - 1) =
               RMul(Half, RAdd(At(Field(lastArg.field), 1, size - 1),
                               At(Field(lastArg.field), 0, size - 2)))
        /\ At(Field(lastArg.field), size - 1, 0) =
               RMul(Half, RAdd(At(Field(lastArg.field), size - 2, 0),
                               At(Field(lastArg.field), size - 1, 1)))
        /\ At(Field(lastArg.field), size - 1, size - 1) =
               RMul(Half, RAdd(At(Field(lastArg.field), size - 2, size - 1),
                               At(Field(lastArg.field), size - 1, size - 2)))

\* a setBoundary left two opposite corners that are not zero, differ from each
\* other and, the first, from what it held before
C7_CornerBetweenEdges ==
    /\ lastOp = "setBoundary"
    /\ At(Field(lastArg.field), 0, 0) # Zero
    /\ At(Field(lastArg.field), 0, 0) # At(lastArg.before, 0, 0)
    /\ At(Field(lastArg.field), size - 1, size - 1) # At(Field(lastArg.field), 0, 0)
    /\ At(Field(lastArg.field), size - 1, size - 1) # Zero

----------------------------------------------------------------------------
(* C2, C3, C9: addForce() *)

\* the squared distance of cell (x, y) from the target cell of the last addForce
SquaredDistance(x, y) ==
    (x - lastArg.gridX) * (x - lastArg.gridX) + (y - lastArg.gridY) * (y - lastArg.gridY)

\* C2: addForce leaves u, v and density unchanged in every cell whose distance
\* from the target cell (gridX, gridY) is greater than the radius, for every
\* radius > 0 and every centre.
C2_FarCellsUnchanged ==
    lastOp = "addForce" =>
        \A x, y \in 0..(size - 1) :
            RGt(I(SquaredDistance(x, y)), RMul(params.forceRadius, params.forceRadius)) =>
                /\ At(u, x, y) = At(lastArg.u, x, y)
                /\ At(v, x, y) = At(lastArg.v, x, y)
                /\ At(density, x, y) = At(lastArg.density, x, y)

\* C3: when the target cell lies inside the grid, addForce adds to it the
\* contribution of influence 1: amountX * forceMultiplier to u,
\* amountY * forceMultiplier to v and 100 to density, for every radius > 0.
C3_TargetGetsFullInfluence ==
    (/\ lastOp = "addForce"
     /\ lastArg.gridX \in 0..(size - 1)
     /\ lastArg.gridY \in 0..(size - 1)) =>
        /\ RSub(At(u, lastArg.gridX, lastArg.gridY),
                At(lastArg.u, lastArg.gridX, lastArg.gridY))
              = RMul(lastArg.amountX, params.forceMultiplier)
        /\ RSub(At(v, lastArg.gridX, lastArg.gridY),
                At(lastArg.v, lastArg.gridX, lastArg.gridY))
              = RMul(lastArg.amountY, params.forceMultiplier)
        /\ RSub(At(density, lastArg.gridX, lastArg.gridY),
                At(lastArg.density, lastArg.gridX, lastArg.gridY))
              = I(100)

\* the last addForce is the scenario of C9: force (10, 0) at the grid centre with
\* forceRadius 5 and forceMultiplier 1, on fields that were zero
RadialScenario ==
    /\ lastOp = "addForce"
    /\ params.forceRadius = I(5)
    /\ params.forceMultiplier = One
    /\ lastArg.amountX = I(10) /\ lastArg.amountY = Zero
    /\ lastArg.gridX = size \div 2 /\ lastArg.gridY = size \div 2
    /\ AllZero(lastArg.u) /\ AllZero(lastArg.v) /\ AllZero(lastArg.density)

\* C9: in that scenario u is 10 * (1 - d / 5) in every cell at distance
\* d = sqrt(i*i + j*j) <= 5 from the centre and 0 in every cell farther away; so
\* u depends on d only and never increases as d grows.
C9_RadialPattern ==
    RadialScenario =>
        /\ \A x, y \in 0..(size - 1) :
              At(u, x, y) =
                  (IF SquaredDistance(x, y) <= 25
                   THEN RMul(I(10), RSub(One, RDiv(Sqrt(I(SquaredDistance(x, y))), I(5))))
                   ELSE Zero)
        /\ \A x, y, z, w \in 0..(size - 1) :
              SquaredDistance(x, y) <= SquaredDistance(z, w) =>
                  RGe(At(u, x, y), At(u, z, w))

\* the scenario happened, the whole disc lies inside the grid, the centre holds
\* 10 and a cell at distance 5 and one beyond hold 0
C9_DiscDrawn ==
    /\ RadialScenario
    /\ lastArg.gridX - 5 >= 0 /\ lastArg.gridX + 5 <= size - 1
    /\ At(u, lastArg.gridX, lastArg.gridY) = I(10)
    /\ At(u, lastArg.gridX + 3, lastArg.gridY + 4) = Zero
    /\ At(u, lastArg.gridX + 1, lastArg.gridY) = I(8)
    /\ At(u, lastArg.gridX + 4, lastArg.gridY + 4) = Zero

----------------------------------------------------------------------------
(* C11: the cells addForce() writes *)

\* the writes of the last addForce, as the history holds them
Writes == {calls[k] : k \in {n \in DOMAIN calls : calls[n].kernel = "write"}}

\* x limited to 0 .. N - 1
Clamped(N, x) == IF RLt(x, Zero) THEN Zero ELSE IF RGt(x, I(N - 1)) THEN I(N - 1) ELSE x

\* the cells whose u, v or density the last addForce changed
ChangedCells ==
    {k \in DOMAIN u : u[k] # lastArg.u[k] \/ v[k] # lastArg.v[k]
                         \/ density[k] # lastArg.density[k]}

----------------------------------------------------------------------------
(* C12: the sign of density *)

NonNegative(x) == {k \in DOMAIN x : RLt(x[k], Zero)} = {}

\* C12: in every state reachable by reset(), addForce() and update(), with any
\* configuration inside the documented ranges, every cell of density and of
\* density_prev is >= 0.
C12_DensityNonNegative == NonNegative(density) /\ NonNegative(density_prev)

\* an update() with diffusion > 0 ran on dye that addForce injected with a force
\* of negative component, and left dye and flow behind
C12_DyeCarried ==
    /\ lastOp = "update"
    /\ params.diffusion # Zero
    /\ ~AllZero(density)
    /\ ~AllZero(density_prev)
    /\ \E k \in DOMAIN v : RLt(v[k], Zero)
    /\ \E k \in DOMAIN density : density[k] # Zero /\ lastArg.density[k] = Zero

----------------------------------------------------------------------------
(* C13: construction with a size below 3 *)

\* C13: constructing a simulation with a grid size below 3 fails at construction
\* time: update() and addForce() never run on an instance of size 0, 1 or 2.
C13_SmallSizeRejected ==
    lastOp \in {"update", "addForce"} => size >= 3

----------------------------------------------------------------------------
(* C14: reset() *)

\* what C14 says of the fields after a reset(), but for the range of the seeds:
\* the six arrays have length N * N and all but density are zero everywhere
FreshFields ==
    /\ size' = size
    /\ \A f \in FieldNames : DOMAIN Sim(size', params', u', v', u_prev', v_prev',
                                        density', density_prev')[f]
                                = 0..(size' * size' - 1)
    /\ AllZero(u') /\ AllZero(v') /\ AllZero(u_prev') /\ AllZero(v_prev')
    /\ AllZero(density_prev')

\* C14 (as stated): after a reset(), called in any state, N is unchanged, the six
\* arrays have length N * N, all but density are zero and every density cell is 0
\* or a seed value in [50, 100).
C14_ResetSeedsBelow100 ==
    [][lastOp' = "reset" =>
          /\ FreshFields
          /\ \A k \in DOMAIN density' :
                \/ density'[k] = Zero
                \/ RGe(density'[k], I(50)) /\ RLt(density'[k], I(100))]_vars

\* C14 (amended): the same with seed values in [50, 100]: Math.random() * 50 + 50
\* stored in a Float32Array rounds to 100 when Math.random() is close enough to 1.
C14_ResetSeedsUpTo100 ==
    [][lastOp' = "reset" =>
          /\ FreshFields
          /\ \A k \in DOMAIN density' :
                \/ density'[k] = Zero
                \/ RGe(density'[k], I(50)) /\ RLe(density'[k], I(100))]_vars

\* a reset() ran on fields that held flow or dye, and seeded a cell
C14_ResetOfUsedFields ==
    /\ lastOp = "reset"
    /\ lastArg.dirty
    /\ ~AllZero(density)
    /\ AllZero(u) /\ AllZero(density_prev)

----------------------------------------------------------------------------
(* C15: the relaxation sweeps against Jacobi sweeps *)

\* the cells of an N * N array that are interior cells
IsInterior(N, k) == k % N \in 1..(N - 2) /\ k \div N \in 1..(N - 2)

\* the sum of the four neighbours of cell k, read from x
Neighbours(N, x, k) == RAdd(RAdd(x[k + 1], x[k - 1]), RAdd(x[k + N], x[k - N]))

\* a Jacobi sweep of diffuse: every interior cell from x as it stood before the sweep
JacobiDiffuseSweep(N, x, x0, a) ==
    [k \in DOMAIN x |->
        IF IsInterior(N, k)
        THEN RDiv(RAdd(x0[k], RMul(a, Neighbours(N, x, k))), RAdd(One, RMul(I(4), a)))
        ELSE x[k]]

RECURSIVE JacobiDiffuse(_, _, _, _, _, _)
JacobiDiffuse(N, b, x, x0, a, sweeps) ==
    IF sweeps = 0 THEN x
    ELSE JacobiDiffuse(N, b, SetBoundary(N, b, JacobiDiffuseSweep(N, x, x0, a)),
                       x0, a, sweeps - 1)

\* a Jacobi sweep of the pressure solve of project
JacobiPressureSweep(N, p, div) ==
    [k \in DOMAIN p |->
        IF IsInterior(N, k) THEN RDiv(RAdd(div[k], Neighbours(N, p, k)), I(4))
        ELSE p[k]]

RECURSIVE JacobiPressure(_, _, _, _)
JacobiPressure(N, p, div, sweeps) ==
    IF sweeps = 0 THEN p
    ELSE JacobiPressure(N, SetBoundary(N, 0, JacobiPressureSweep(N, p, div)),
                        div, sweeps - 1)

\* C15: every relaxation sweep of diffuse() and of the pressure solve of project()
\* yields the field a Jacobi sweep yields, one that reads the four neighbours from
\* a copy taken before the sweep; so do the sweeps of a whole call, one after the
\* other.
C15_SweepsAreJacobi ==
    /\ lastOp = "diffuse" =>
          density_prev =
              JacobiDiffuse(size, 0, lastArg.before, lastArg.src,
                            RMul(RMul(params.dt, params.diffusion),
                                 I((size - 2) * (size - 2))),
                            params.iterations)
    /\ lastOp = "project" =>
          u_prev = JacobiPressure(size, ZeroArray(size), v_prev, params.iterations)

----------------------------------------------------------------------------
(* C16: when the host page calls addForce() *)

\* the addForce calls of the last operation, as the history holds them
ForceCalls == {calls[k] : k \in {n \in DOMAIN calls : calls[n].kernel = "addForce"}}

\* C16: a mousemove or touchmove calls addForce if and only if a mousedown or
\* touchstart happened with no mouseup or touchend after it; the call is made at
\* the pointer's position with the displacement from the position of the pointer
\* event (press or move) just before it; a move while the pointer is up leaves u, v
\* and density as they were.  Positions are those of the vector mouse.
C16_ForceOnlyWhilePressed ==
    [][lastOp' \in {"mousemove", "touchmove"} =>
          /\ (ForceCalls' # {}) <=> lastArg.pressed
          /\ \A call \in ForceCalls' :
                /\ call.x = lastArg'.pointer[1] /\ call.y = lastArg'.pointer[2]
                /\ call.amountX = RSub(lastArg'.pointer[1], lastArg.pointer[1])
                /\ call.amountY = RSub(lastArg'.pointer[2], lastArg.pointer[2])
          /\ ~lastArg.pressed => UNCHANGED <<u, v, density>>]_vars

\* a press, then a move to another place that changed the flow
C16_FirstMoveAfterPress ==
    /\ lastOp \in {"mousemove", "touchmove"}
    /\ nops = 2
    /\ lastArg.pressed
    /\ ~AllZero(u)
    /\ ~AllZero(density)

----------------------------------------------------------------------------
(* C17: advect() blends, it does not amplify *)

UnitWeight(w) == RGe(w, Zero) /\ RLe(w, One)

\* C17: advect with dst distinct from src writes to each interior cell of dst a
\* blend of four src cells with weights s0, s1, t0, t1 in [0, 1], s0 + s1 = 1 and
\* t0 + t1 = 1, so every interior value of dst lies between the least and the
\* largest value of src; and after the boundary refresh the largest magnitude in
\* dst is at most the largest magnitude in src.  For any dt and velocity.
C17_AdvectIsConvex ==
    lastOp = "advect" =>
        /\ \A c \in lastArg.samples :
              /\ UnitWeight(c.s0) /\ UnitWeight(c.s1)
              /\ UnitWeight(c.t0) /\ UnitWeight(c.t1)
              /\ RAdd(c.s0, c.s1) = One /\ RAdd(c.t0, c.t1) = One
              /\ At(Field(lastArg.dst), c.i, c.j) =
                    RAdd(RMul(c.s0, RAdd(RMul(c.t0, At(lastArg.src, c.i0, c.j0)),
                                         RMul(c.t1, At(lastArg.src, c.i0, c.j1)))),
                         RMul(c.s1, RAdd(RMul(c.t0, At(lastArg.src, c.i1, c.j0)),
                                         RMul(c.t1, At(lastArg.src, c.i1, c.j1)))))
              /\ \E k \in DOMAIN lastArg.src :
                    RLe(lastArg.src[k], At(Field(lastArg.dst), c.i, c.j))
              /\ \E k \in DOMAIN lastArg.src :
                    RGe(lastArg.src[k], At(Field(lastArg.dst), c.i, c.j))
        /\ RLe(MaxAbs(Field(lastArg.dst)), MaxAbs(lastArg.src))

\* an advect wrote a cell with a value that is none of the four it sampled: a
\* blend with weights strictly between 0 and 1
C17_BlendedSample ==
    /\ lastOp = "advect"
    /\ \E c \in lastArg.samples :
          /\ RGt(c.s0, Zero) /\ RGt(c.s1, Zero)
          /\ At(Field(lastArg.dst), c.i, c.j) \notin
                {At(lastArg.src, c.i0, c.j0), At(lastArg.src, c.i0, c.j1),
                 At(lastArg.src, c.i1, c.j0), At(lastArg.src, c.i1, c.j1)}

----------------------------------------------------------------------------
(* C18: the fixed-0.99 variant against the tunable class *)

SameFlowAndDye ==
    /\ u = lastArg.twin.u
    /\ v = lastArg.twin.v
    /\ density = lastArg.twin.density

\* C18 (as stated): the variant is the tunable class with densityDissipation =
\* velocityDissipation = 0.99: from equal fields and equal dt, diffusion, viscosity
\* and iterations, one update() of each leaves equal u, v and density.
C18_VariantIsBoth099 ==
    (/\ lastOp = "update"
     /\ nops = 1
     /\ params.densityDissipation = R(99, 100)
     /\ params.velocityDissipation = R(99, 100)) => SameFlowAndDye

\* C18 (amended): the variant is the tunable class with densityDissipation = 0.99
\* and velocityDissipation = 1: from equal fields and equal dt, diffusion,
\* viscosity and iterations, every update() of each leaves equal u, v and density,
\* and equal scratch arrays.
C18_VariantIs099And1 ==
    (/\ params.densityDissipation = R(99, 100)
     /\ params.velocityDissipation = One) =>
        /\ SameFlowAndDye
        /\ u_prev = lastArg.twin.u_prev
        /\ v_prev = lastArg.twin.v_prev
        /\ density_prev = lastArg.twin.density_prev

\* both objects made a step that moved the flow and the dye
C18_BothStepped ==
    /\ lastOp = "update"
    /\ params.velocityDissipation = One
    /\ ~AllZero(u) /\ ~AllZero(v)
    /\ ~AllZero(lastArg.twin.density)
    /\ density # Spike(size, 1, 1, I(100))
    /\ density # Spike(size, 1, 1, I(99))

----------------------------------------------------------------------------
(* C19: project() and the entry contents of its scratch buffers *)

\* the object on entry to the last project(), with p0 and div0 in the scratch
\* buffers instead of what they held
ProjectEntry(p0, div0) ==
    Sim(size, params, lastArg.u, lastArg.v, p0, div0, density, density_prev)

\* project, lines 321-331: the divergence pass and the two kind-0 refreshes
AfterDivergencePass(s, velocX, velocY, p, div) ==
    Bounded(Bounded(
        Divergence(s, velocX, velocY, p, div, InteriorCells(s.size), 1),
        0, div), 0, p)

\* other contents the scratch buffers could have held on entry
OtherScratch(N) == {ZeroArray(N), Uniform(N, I(-7)), Spike(N, 0, 0, I(3))}

SameVelocityAndScratch(s, t) ==
    /\ s.u = t.u
    /\ s.v = t.v
    /\ s.u_prev = t.u_prev
    /\ s.v_prev = t.v_prev

\* C19: for N >= 3, after the divergence pass and the two kind-0 refreshes of
\* project() p is zero in every cell and div holds nothing of its entry contents,
\* and the call ends with the same velocX, velocY, p and div as a call with equal
\* velocities and iterations and any other entry contents of p and div.
C19_ProjectIgnoresScratch ==
    lastOp = "project" =>
        LET pass == AfterDivergencePass(ProjectEntry(lastArg.p, lastArg.div),
                                        "u", "v", "u_prev", "v_prev")
        IN  /\ AllZero(pass.u_prev)
            /\ \A p0 \in OtherScratch(size), div0 \in OtherScratch(size) :
                  /\ pass.v_prev =
                         AfterDivergencePass(ProjectEntry(p0, div0),
                                             "u", "v", "u_prev", "v_prev").v_prev
                  /\ SameVelocityAndScratch(
                         Cur, Project(ProjectEntry(p0, div0),
                                      "u", "v", "u_prev", "v_prev"))

\* project() ran on buffers that were not zero on entry, changed the velocity and
\* left a pressure that is not zero
C19_ProjectOnDirtyScratch ==
    /\ lastOp = "project"
    /\ ~AllZero(lastArg.p) /\ ~AllZero(lastArg.div)
    /\ lastArg.p[0] # Zero /\ lastArg.div[0] # Zero
    /\ u # lastArg.u
    /\ ~AllZero(u_prev)

----------------------------------------------------------------------------
(* C20: the array behind the density texture *)

\* C20: in every reachable state, also after reset() calls, the array the density
\* texture uploads (texture.image.data) is the array object this.density refers
\* to, the one update() and addForce() write.
C20_TextureShowsDensity == texture = densityObject

----------------------------------------------------------------------------
(* C21: update() and the entry contents of the scratch buffers *)

SameOutcome(s, t) ==
    /\ s.u = t.u
    /\ s.v = t.v
    /\ s.density = t.density

\* the object on entry to the last update(), with the given arrays in the three
\* scratch buffers instead of what they held
UpdateEntryWithScratch(su, sv, sd) ==
    Sim(size, params, lastArg.u, lastArg.v, su, sv, lastArg.density, sd)

\* C21: update() is a function of u, v, density and the configuration only: an
\* object with equal u, v, density and configuration and other contents of
\* u_prev, v_prev and density_prev has equal u, v and density after one update().
C21_UpdateIgnoresScratch ==
    lastOp = "update" =>
        \A su \in OtherScratch(size), sd \in OtherScratch(size) :
            \E t \in {Update(UpdateEntryWithScratch(su, su, sd))} :
                AllRepresentable(t) => SameOutcome(Cur, t)

----------------------------------------------------------------------------
(* C22: update() and the entry contents of the border cells *)

\* x with its border cells (x or y equal to 0 or N - 1) taken from the array other
WithBorder(N, x, other) ==
    [k \in DOMAIN x |-> IF IsInterior(N, k) THEN x[k] ELSE other[k]]

\* other contents the border cells of u, v and density could have held on entry
OtherBorders(N) ==
    {<<ZeroArray(N), ZeroArray(N), ZeroArray(N)>>,
     <<Uniform(N, I(5)), Ramp(N), ZeroArray(N)>>,
     <<Ramp(N), Uniform(N, I(5)), Ramp(N)>>,
     <<ZeroArray(N), Uniform(N, I(-5)), Uniform(N, I(5))>>}

\* the object on entry to the last update(), with the border cells of u, v and
\* density taken from the given arrays
UpdateEntryWithBorders(bu, bv, bd) ==
    Sim(size, params,
        WithBorder(size, lastArg.u, bu), WithBorder(size, lastArg.v, bv),
        lastArg.u_prev, lastArg.v_prev,
        WithBorder(size, lastArg.density, bd), lastArg.density_prev)

\* C22: for N >= 3 the result of update() does not depend on what the border cells
\* of u, v and density held on entry: an object that agrees on the interior cells
\* of u, v, density and on the scratch buffers and differs in border cells has
\* equal u, v and density after update().
C22_UpdateIgnoresBorders ==
    lastOp = "update" =>
        \A b \in OtherBorders(size) :
            SameOutcome(Cur, Update(UpdateEntryWithBorders(b[1], b[2], b[3])))

\* update() ran on fields whose border cells held force and dye that addForce
\* had put there, out of line with the interior, and left flow and dye behind
C22_StepFromForcedBorder ==
    /\ lastOp = "update"
    /\ \E k \in DOMAIN u :
          /\ ~IsInterior(size, k)
          /\ lastArg.u[k] # Zero
          /\ lastArg.density[k] # Zero
    /\ lastArg.u # SetBoundary(size, 1, lastArg.u)
    /\ lastArg.density # SetBoundary(size, 0, lastArg.density)
    /\ ~AllZero(u)
    /\ ~AllZero(density)

----------------------------------------------------------------------------
(* C23: the borders after update() *)

\* the value a border cell of kind b mirrors: negated on the sides kind b flips
Reflected(val, flip) == IF flip THEN RNeg(val) ELSE val

\* every edge cell of x is the reflection of kind b of its adjacent interior cell
EdgesFollowInterior(x, b) ==
    /\ \A j \in 1..(size - 2) :
          /\ At(x, 0, j) = Reflected(At(x, 1, j), b = 1)
          /\ At(x, size - 1, j) = Reflected(At(x, size - 2, j), b = 1)
    /\ \A i \in 1..(size - 2) :
          /\ At(x, i, 0) = Reflected(At(x, i, 1), b = 2)
          /\ At(x, i, size - 1) = Reflected(At(x, i, size - 2), b = 2)

\* every corner of x is the average of its two adjacent edge cells
CornersFollowEdges(x) ==
    /\ At(x, 0, 0) = RMul(Half, RAdd(At(x, 1, 0), At(x, 0, 1)))
    /\ At(x, 0, size - 1) =
           RMul(Half, RAdd(At(x, 1, size - 1), At(x, 0, size - 2)))
    /\ At(x, size - 1, 0) =
           RMul(Half, RAdd(At(x, size - 2, 0), At(x, size - 1, 1)))
    /\ At(x, size - 1, size - 1) =
           RMul(Half, RAdd(At(x, size - 2, size - 1), At(x, size - 1, size - 2)))

BordersConsistent ==
    /\ EdgesFollowInterior(density, 0) /\ CornersFollowEdges(density)
    /\ EdgesFollowInterior(u, 1) /\ CornersFollowEdges(u)
    /\ EdgesFollowInterior(v, 2) /\ CornersFollowEdges(v)

BordersConsistentAfterUpdate == lastOp = "update" => BordersConsistent

\* the call that follows an update() leaves the relations standing unless it is
\* addForce
OnlyAddForceBreaksBorders ==
    [][(lastOp = "update" /\ BordersConsistent /\ ~BordersConsistent')
           => lastOp' = "addForce"]_vars

\* C23: immediately after every update() (N >= 3, after any sequence of reset,
\* addForce and update) density satisfies the kind-0 relation, u the kind-1
\* relation, v the kind-2 relation, and every corner of the three fields is the
\* average of its two adjacent edge cells, the dissipation multiply included; and
\* only addForce breaks these relations before the next update().
C23_BordersFollowInterior ==
    [](BordersConsistentAfterUpdate) /\ OnlyAddForceBreaksBorders

=============================================================================
